---- MODULE Spec2Model ----
(***************************************************************************)
(* A model of the clinical workflow agent: ClinicalAgent (agent.py),       *)
(* ClinicalFunctions (functions.py), MockHealthcareAPI (api_client.py) and *)
(* AuditLogger (logger.py).                                                *)
(*                                                                         *)
(* Python strings whose characters the code inspects (lower(), upper(),    *)
(* split(), the `in` substring test, strptime) are sequences of            *)
(* one-character strings.  Strings that are only labels (function names,   *)
(* action types, fixed field values) are TLA+ strings.                     *)
(*                                                                         *)
(* Environment assumptions: the interpreter's I/O primitives (open, write, *)
(* print) complete normally, arguments have the types the signatures       *)
(* declare, and one audit file (one calendar day) is in use.               *)
(***************************************************************************)
EXTENDS Integers, Sequences, FiniteSets, TLC

(***************************************************************************)
(* String literals of the sources and of the inputs.                       *)
(***************************************************************************)
\* "search"
kw_search == <<"s", "e", "a", "r", "c", "h">>
\* "find patient"
kw_find_patient == <<"f", "i", "n", "d", " ", "p", "a", "t", "i", "e", "n", "t">>
\* "insurance"
kw_insurance == <<"i", "n", "s", "u", "r", "a", "n", "c", "e">>
\* "eligibility"
kw_eligibility == <<"e", "l", "i", "g", "i", "b", "i", "l", "i", "t", "y">>
\* "slots"
kw_slots == <<"s", "l", "o", "t", "s">>
\* "available"
kw_available == <<"a", "v", "a", "i", "l", "a", "b", "l", "e">>
\* "cardio"
kw_cardio == <<"c", "a", "r", "d", "i", "o">>
\* "book"
kw_book == <<"b", "o", "o", "k">>
\* "schedule"
kw_schedule == <<"s", "c", "h", "e", "d", "u", "l", "e">>
\* "P001"
s_P001 == <<"P", "0", "0", "1">>
\* "P002"
s_P002 == <<"P", "0", "0", "2">>
\* "P003"
s_P003 == <<"P", "0", "0", "3">>
\* "P999"
s_P999 == <<"P", "9", "9", "9">>
\* "p002"
s_p002 == <<"p", "0", "0", "2">>
\* "Ravi Kumar"
s_Ravi_Kumar == <<"R", "a", "v", "i", " ", "K", "u", "m", "a", "r">>
\* "Priya Sharma"
s_Priya_Sharma == <<"P", "r", "i", "y", "a", " ", "S", "h", "a", "r", "m", "a">>
\* "Amit Patel"
s_Amit_Patel == <<"A", "m", "i", "t", " ", "P", "a", "t", "e", "l">>
\* "kumar"
s_kumar == <<"k", "u", "m", "a", "r">>
\* "Nobody"
s_Nobody == <<"N", "o", "b", "o", "d", "y">>
\* ""
s_empty == <<>>
\* "cardiology"
s_cardiology == <<"c", "a", "r", "d", "i", "o", "l", "o", "g", "y">>
\* "general"
s_general == <<"g", "e", "n", "e", "r", "a", "l">>
\* "dental"
s_dental == <<"d", "e", "n", "t", "a", "l">>
\* "orthopedics"
s_orthopedics == <<"o", "r", "t", "h", "o", "p", "e", "d", "i", "c", "s">>
\* "2025-12-23"
s_2025_12_23 == <<"2", "0", "2", "5", "-", "1", "2", "-", "2", "3">>
\* "2025-12-26"
s_2025_12_26 == <<"2", "0", "2", "5", "-", "1", "2", "-", "2", "6">>
\* "next week"
s_next_week == <<"n", "e", "x", "t", " ", "w", "e", "e", "k">>
\* "SLOT_CAR_2025122309"
s_SLOT_CAR_2025122309 ==
    << "S", "L", "O", "T", "_", "C", "A", "R", "_", "2", "0", "2", "5", "1", "2", "2",
       "3", "0", "9" >>
\* "SLOT_GEN_2025122311"
\* "SLOT"
s_SLOT == <<"S", "L", "O", "T">>
\* "SLOT_"
s_SLOT_ == <<"S", "L", "O", "T", "_">>
\* "_"
s_underscore == <<"_">>
\* " "
s_space == <<" ">>
\* "-"
\* "Search for patient Ravi Kumar"
ReqSearch ==
    << "S", "e", "a", "r", "c", "h", " ", "f", "o", "r", " ", "p", "a", "t", "i", "e",
       "n", "t", " ", "R", "a", "v", "i", " ", "K", "u", "m", "a", "r" >>
\* "Check insurance eligibility for patient P001 for cardiology"
ReqInsurance ==
    << "C", "h", "e", "c", "k", " ", "i", "n", "s", "u", "r", "a", "n", "c", "e", " ",
       "e", "l", "i", "g", "i", "b", "i", "l", "i", "t", "y", " ", "f", "o", "r", " ",
       "p", "a", "t", "i", "e", "n", "t", " ", "P", "0", "0", "1", " ", "f", "o", "r",
       " ", "c", "a", "r", "d", "i", "o", "l", "o", "g", "y" >>
\* "Find available cardiology slots next week"
ReqSlots ==
    << "F", "i", "n", "d", " ", "a", "v", "a", "i", "l", "a", "b", "l", "e", " ", "c",
       "a", "r", "d", "i", "o", "l", "o", "g", "y", " ", "s", "l", "o", "t", "s", " ",
       "n", "e", "x", "t", " ", "w", "e", "e", "k" >>
\* "Schedule a cardiology follow-up for patient Ravi Kumar next week"
ReqSchedule ==
    << "S", "c", "h", "e", "d", "u", "l", "e", " ", "a", " ", "c", "a", "r", "d", "i",
       "o", "l", "o", "g", "y", " ", "f", "o", "l", "l", "o", "w", "-", "u", "p", " ",
       "f", "o", "r", " ", "p", "a", "t", "i", "e", "n", "t", " ", "R", "a", "v", "i",
       " ", "K", "u", "m", "a", "r", " ", "n", "e", "x", "t", " ", "w", "e", "e", "k" >>
\* "What is the weather today"
ReqWeather ==
    << "W", "h", "a", "t", " ", "i", "s", " ", "t", "h", "e", " ", "w", "e", "a", "t",
       "h", "e", "r", " ", "t", "o", "d", "a", "y" >>
\* "find patient ravi"
\* "search P002 and book slots"
ReqSearchAndBook ==
    << "s", "e", "a", "r", "c", "h", " ", "P", "0", "0", "2", " ", "a", "n", "d", " ",
       "b", "o", "o", "k", " ", "s", "l", "o", "t", "s" >>
\* "any slots"
(***************************************************************************)
(* Python string operations.                                               *)
(***************************************************************************)
UpperLetters ==
    << "A", "B", "C", "D", "E", "F", "G", "H", "I", "J", "K", "L", "M",
       "N", "O", "P", "Q", "R", "S", "T", "U", "V", "W", "X", "Y", "Z" >>

LowerLetters ==
    << "a", "b", "c", "d", "e", "f", "g", "h", "i", "j", "k", "l", "m",
       "n", "o", "p", "q", "r", "s", "t", "u", "v", "w", "x", "y", "z" >>

DigitChars == << "0", "1", "2", "3", "4", "5", "6", "7", "8", "9" >>

\* the letter pairs, as maps
UpperToLower ==
    [c \in {UpperLetters[i] : i \in 1..Len(UpperLetters)} |->
        LowerLetters[CHOOSE i \in 1..Len(UpperLetters) : UpperLetters[i] = c]]

LowerToUpper ==
    [c \in {LowerLetters[i] : i \in 1..Len(LowerLetters)} |->
        UpperLetters[CHOOSE i \in 1..Len(LowerLetters) : LowerLetters[i] = c]]

DigitValue ==
    [c \in {DigitChars[i] : i \in 1..Len(DigitChars)} |->
        (CHOOSE i \in 1..Len(DigitChars) : DigitChars[i] = c) - 1]

\* str.isupper(), str.islower(), str.isdigit() of one character
isupper(c) == c \in DOMAIN UpperToLower

islower(c) == c \in DOMAIN LowerToUpper

isdigit(c) == c \in DOMAIN DigitValue

lower_char(c) == IF isupper(c) THEN UpperToLower[c] ELSE c

upper_char(c) == IF islower(c) THEN LowerToUpper[c] ELSE c

\* str.lower()
lower(s) == SubSeq([i \in 1..Len(s) |-> lower_char(s[i])], 1, Len(s))

\* str.upper()
upper(s) == SubSeq([i \in 1..Len(s) |-> upper_char(s[i])], 1, Len(s))

\* str.capitalize(): first character upper-cased, the rest lower-cased
capitalize(s) ==
    SubSeq([i \in 1..Len(s) |-> IF i = 1 THEN upper_char(s[i]) ELSE lower_char(s[i])],
           1, Len(s))

\* the substring test `sub in s`
contains(sub, s) ==
    \E i \in 0..(Len(s) - Len(sub)) : SubSeq(s, i + 1, i + Len(sub)) = sub

\* s[:n]
prefix(s, n) == SubSeq(s, 1, IF n < Len(s) THEN n ELSE Len(s))

\* str.split(sep): the pieces between occurrences of sep, empty pieces kept
RECURSIVE split_sep(_, _)
split_sep(s, sep) ==
    IF \A i \in 1..Len(s) : s[i] # sep
    THEN << s >>
    ELSE LET i == CHOOSE k \in 1..Len(s) :
                     s[k] = sep /\ \A j \in 1..(k - 1) : s[j] # sep
         IN  << SubSeq(s, 1, i - 1) >> \o split_sep(SubSeq(s, i + 1, Len(s)), sep)

\* str.split(): split on whitespace, empty pieces dropped
split(s) == SelectSeq(split_sep(s, " "), LAMBDA w : Len(w) > 0)

\* sep.join(words)
RECURSIVE join(_, _)
join(sep, words) ==
    IF Len(words) = 0 THEN << >>
    ELSE IF Len(words) = 1 THEN words[1]
    ELSE words[1] \o sep \o join(sep, Tail(words))

\* the decimal value of a string of digits
RECURSIVE to_int(_)
to_int(s) ==
    IF Len(s) = 0 THEN 0
    ELSE 10 * to_int(SubSeq(s, 1, Len(s) - 1))
         + DigitValue[s[Len(s)]]

\* a number as `width` decimal digits, zero-padded (strftime %Y %m %d %H)
RECURSIVE zero_pad(_, _)
zero_pad(n, width) ==
    IF width = 0 THEN << >>
    ELSE zero_pad(n \div 10, width - 1) \o << DigitChars[(n % 10) + 1] >>

(***************************************************************************)
(* Python values that one variable or field holds in several types.        *)
(***************************************************************************)
\* the value None
None == [t |-> "NoneType"]

\* a str held where None may be held too (Optional[str])
Str(s) == [t |-> "str", s |-> s]

\* a dict with the items of record d, and the empty dict {}
Dict(d) == [t |-> "dict", d |-> d]

EmptyDict == [t |-> "dict"]

\* an int
PyInt(n) == [t |-> "int", n |-> n]

\* a list
List(items) == [t |-> "list", items |-> items]

\* bool(x): Python's truth value of x
truthy(x) ==
    CASE x.t = "NoneType" -> FALSE
      [] x.t = "dict"     -> "d" \in DOMAIN x
      [] x.t = "int"      -> x.n # 0
      [] x.t = "list"     -> Len(x.items) > 0
      [] x.t = "str"      -> IF "s" \in DOMAIN x THEN Len(x.s) > 0 ELSE TRUE
      [] OTHER            -> TRUE

\* str(x): the text Python prints for x (never empty)
str(x) == [t |-> "str", repr |-> x]

\* the outcome of a call: a returned value or a raised exception, with the
\* world the call leaves
Return(w, v) == [w |-> w, raised |-> FALSE, value |-> v]

Raise(w, e) == [w |-> w, raised |-> TRUE, exc |-> e]

\* exceptions; str(e) is the record itself
ValueError(msg, arg) == [type |-> "ValueError", msg |-> msg, arg |-> arg]

IndexError == [type |-> "IndexError", msg |-> "list index out of range"]

TypeError(function_name) ==
    [type |-> "TypeError", msg |-> "unexpected or missing argument", arg |-> function_name]

(***************************************************************************)
(* schemas.py and the mock database of MockHealthcareAPI.__init__.         *)
(***************************************************************************)
Patient(patient_id, name, date_of_birth, phone, email) ==
    [patient_id |-> patient_id, name |-> name, date_of_birth |-> date_of_birth,
     phone |-> phone, email |-> email]

InitialPatients ==
    (s_P001 :> Patient(s_P001, s_Ravi_Kumar, "1985-03-15", "+91-9876543210",
                       "ravi.kumar@email.com"))
    @@ (s_P002 :> Patient(s_P002, s_Priya_Sharma, "1990-07-22", "+91-9876543211",
                          "priya.sharma@email.com"))
    @@ (s_P003 :> Patient(s_P003, s_Amit_Patel, "1978-11-30", "+91-9876543212",
                          "amit.patel@email.com"))

\* the insertion order of the patients dict, which values() iterates in
PatientOrder == << s_P001, s_P002, s_P003 >>

InitialAppointments == [slot_id \in {} |-> None]

(***************************************************************************)
(* The world: everything the operations read and write.                    *)
(*   log_exists, log_lines  the audit file of the day and its lines        *)
(*   patients, appointments the mock database                              *)
(*   api_calls              how many MockHealthcareAPI methods were called *)
(*   now                    the reading of datetime.now()                  *)
(*   dry_run                ClinicalFunctions.dry_run                      *)
(***************************************************************************)
called(w) == [w EXCEPT !.api_calls = @ + 1]

(***************************************************************************)
(* api_client.py: MockHealthcareAPI                                        *)
(***************************************************************************)
\* the first patient, in dict order from position i, whose name contains query_lower
RECURSIVE search_by_name(_, _, _)
search_by_name(patients, query_lower, i) ==
    IF i > Len(PatientOrder) THEN None
    ELSE LET patient == patients[PatientOrder[i]]
         IN  IF contains(query_lower, lower(patient.name))
             THEN Dict(patient)
             ELSE search_by_name(patients, query_lower, i + 1)

\* MockHealthcareAPI.search_patient: the patient (as the dict model_dump()
\* gives) or None
api_search_patient(w, query) ==
    LET query_lower == lower(query)
    IN  IF upper(query) \in DOMAIN w.patients
        THEN Return(called(w), Dict(w.patients[upper(query)]))
        ELSE Return(called(w), search_by_name(w.patients, query_lower, 1))

InsuranceEligibility(patient_id, eligible, service_type) ==
    [patient_id |-> patient_id,
     is_eligible |-> eligible,
     insurance_provider |-> "National Health Insurance",
     coverage_type |-> IF eligible THEN "Premium" ELSE "Basic",
     copay_amount |-> IF service_type = s_cardiology THEN 500 ELSE 200,
     notes |-> IF eligible THEN "Active coverage" ELSE "Coverage expired"]

\* MockHealthcareAPI.check_insurance_eligibility
api_check_insurance_eligibility(w, patient_id, service_type) ==
    IF patient_id \notin DOMAIN w.patients
    THEN Raise(called(w), ValueError("Patient {} not found", patient_id))
    ELSE Return(called(w),
                Dict(InsuranceEligibility(patient_id, patient_id \in {s_P001, s_P002},
                                          service_type)))

(***************************************************************************)
(* datetime: strptime(s, "%Y-%m-%d"), timedelta(days), weekday(), strftime *)
(***************************************************************************)
all_digits(s) == \A i \in 1..Len(s) : isdigit(s[i])

is_leap(year) == (year % 4 = 0 /\ year % 100 # 0) \/ year % 400 = 0

DaysBeforeMonth == << 0, 31, 59, 90, 120, 151, 181, 212, 243, 273, 304, 334 >>

DaysInMonth == << 31, 28, 31, 30, 31, 30, 31, 31, 30, 31, 30, 31 >>

days_in_month(year, month) ==
    IF month = 2 /\ is_leap(year) THEN 29 ELSE DaysInMonth[month]

\* date.toordinal(): day 1 is 0001-01-01, a Monday
ordinal(date) ==
    LET y == date.year - 1
    IN  y * 365 + (y \div 4) - (y \div 100) + (y \div 400)
        + DaysBeforeMonth[date.month]
        + (IF date.month > 2 /\ is_leap(date.year) THEN 1 ELSE 0)
        + date.day

\* date.weekday(): Monday is 0
weekday(date) == (ordinal(date) + 6) % 7

\* date + timedelta(days=1)
next_day(date) ==
    IF date.day < days_in_month(date.year, date.month)
    THEN [date EXCEPT !.day = @ + 1]
    ELSE IF date.month < 12
    THEN [date EXCEPT !.month = @ + 1, !.day = 1]
    ELSE [year |-> date.year + 1, month |-> 1, day |-> 1]

\* date + timedelta(days=n)
RECURSIVE add_days(_, _)
add_days(date, n) == IF n = 0 THEN date ELSE add_days(next_day(date), n - 1)

\* the pieces of s have the shape %Y-%m-%d: four digits, then one or two, twice
strptime_shaped(parts) ==
    /\ Len(parts) = 3
    /\ Len(parts[1]) = 4 /\ all_digits(parts[1])
    /\ Len(parts[2]) \in 1..2 /\ all_digits(parts[2])
    /\ Len(parts[3]) \in 1..2 /\ all_digits(parts[3])

\* the date of the three numbers, or the ValueError for a number out of range
strptime_date(s, year, month, day) ==
    IF year < 1 \/ month \notin 1..12 \/ day \notin 1..31
    THEN [ok |-> FALSE,
          exc |-> ValueError("time data {} does not match format '%Y-%m-%d'", s)]
    ELSE IF day > days_in_month(year, month)
    THEN [ok |-> FALSE, exc |-> ValueError("day is out of range for month", s)]
    ELSE [ok |-> TRUE, date |-> [year |-> year, month |-> month, day |-> day]]

\* strptime on the pieces of s between the dashes
strptime_parts(s, parts) ==
    IF ~strptime_shaped(parts)
    THEN [ok |-> FALSE,
          exc |-> ValueError("time data {} does not match format '%Y-%m-%d'", s)]
    ELSE strptime_date(s, to_int(parts[1]), to_int(parts[2]), to_int(parts[3]))

\* datetime.strptime(s, "%Y-%m-%d"): [ok |-> TRUE, date |-> ..] or the
\* ValueError it raises
strptime(s) == strptime_parts(s, split_sep(s, "-"))

\* slot_time.strftime('%Y%m%d%H')
strftime_YmdH(date, hour) ==
    zero_pad(date.year, 4) \o zero_pad(date.month, 2) \o zero_pad(date.day, 2)
    \o zero_pad(hour, 2)

\* slot_time.isoformat(), minute and second 0
isoformat(date, hour) ==
    zero_pad(date.year, 4) \o << "-" >> \o zero_pad(date.month, 2) \o << "-" >>
    \o zero_pad(date.day, 2) \o << "T" >> \o zero_pad(hour, 2)
    \o << ":", "0", "0", ":", "0", "0" >>

(***************************************************************************)
(* MockHealthcareAPI.find_available_slots                                  *)
(***************************************************************************)
SlotHours == << 9, 11, 14, 16 >>

\* providers.get(specialty.lower(), ["Dr. Available"])
provider_list_of(specialty) ==
    CASE lower(specialty) = s_cardiology  -> << "Dr. Reddy", "Dr. Mehta" >>
      [] lower(specialty) = s_orthopedics -> << "Dr. Singh", "Dr. Gupta" >>
      [] lower(specialty) = s_general     -> << "Dr. Kumar", "Dr. Sharma" >>
      [] OTHER                            -> << "Dr. Available" >>

AppointmentSlot(specialty, date, hour, provider_name) ==
    [slot_id |-> s_SLOT_ \o upper(prefix(specialty, 3)) \o s_underscore
                 \o strftime_YmdH(date, hour),
     datetime |-> isoformat(date, hour),
     provider_name |-> provider_name,
     specialty |-> capitalize(specialty),
     duration_minutes |-> 30]

\* the inner loop: for hour in [9, 11, 14, 16], from position i
RECURSIVE day_slots(_, _, _, _)
day_slots(specialty, date, i, slots) ==
    IF i > Len(SlotHours) THEN slots
    ELSE LET provider_list == provider_list_of(specialty)
             provider_name == provider_list[(Len(slots) % Len(provider_list)) + 1]
         IN  day_slots(specialty, date, i + 1,
                       Append(slots,
                              AppointmentSlot(specialty, date, SlotHours[i],
                                              provider_name)))

\* the outer loop: while current_date <= end_date
RECURSIVE slots_until(_, _, _, _)
slots_until(specialty, current_date, end_date, slots) ==
    IF ordinal(current_date) > ordinal(end_date) THEN slots
    ELSE slots_until(specialty, next_day(current_date), end_date,
                     IF weekday(current_date) < 5
                     THEN day_slots(specialty, current_date, 1, slots)
                     ELSE slots)

\* end_date: start_date + timedelta(days=7), or date_range_end parsed if given
end_date_of(start_date, date_range_end) ==
    IF truthy(date_range_end)
    THEN strptime(date_range_end.s)
    ELSE [ok |-> TRUE, date |-> add_days(start_date, 7)]

\* the loops and the return, once both dates are parsed
slots_between(w, specialty, start_date, end) ==
    IF ~end.ok THEN Raise(called(w), end.exc)
    ELSE Return(called(w), prefix(slots_until(specialty, start_date, end.date, << >>), 10))

\* the body after start_date = datetime.strptime(date_range_start, "%Y-%m-%d")
slots_from(w, specialty, start, date_range_end) ==
    IF ~start.ok THEN Raise(called(w), start.exc)
    ELSE slots_between(w, specialty, start.date, end_date_of(start.date, date_range_end))

\* MockHealthcareAPI.find_available_slots: the list of the first 10 slots
api_find_available_slots(w, specialty, date_range_start, date_range_end) ==
    slots_from(w, specialty, strptime(date_range_start), date_range_end)

(***************************************************************************)
(* MockHealthcareAPI.book_appointment                                      *)
(***************************************************************************)
Appointment(appointment_id, patient_id, slot_id, specialty, now) ==
    [appointment_id |-> appointment_id,
     patient_id |-> patient_id,
     slot_id |-> slot_id,
     datetime |-> now,
     provider_name |-> "Dr. Assigned",
     specialty |-> specialty,
     status |-> "scheduled",
     created_at |-> now]

\* f"APT_{uuid.uuid4().hex[:8].upper()}": an identifier no earlier appointment
\* has, here the number of the appointment
fresh_appointment_id(w) == Cardinality(DOMAIN w.appointments) + 1

\* a faulty book_appointment: the check that the slot is free is missing, so
\* a second booking replaces the first
api_book_appointment_overwriting(w, patient_id, slot_id) ==
    IF patient_id \notin DOMAIN w.patients
    THEN Raise(called(w), ValueError("Patient {} not found", patient_id))
    ELSE IF Len(split_sep(slot_id, "_")) < 2
    THEN Raise(called(w), IndexError)
    ELSE LET appointment == Appointment(fresh_appointment_id(w), patient_id, slot_id,
                                        split_sep(slot_id, "_")[2], w.now)
         IN  Return([called(w) EXCEPT !.appointments =
                         (slot_id :> appointment) @@ @],
                    Dict(appointment))

\* a faulty book_appointment: the appointment is stored before the patient
\* is looked up
api_book_appointment_storing_first(w, patient_id, slot_id) ==
    IF slot_id \in DOMAIN w.appointments
    THEN Raise(called(w), ValueError("Slot {} is already booked", slot_id))
    ELSE IF Len(split_sep(slot_id, "_")) < 2
    THEN Raise(called(w), IndexError)
    ELSE IF patient_id \notin DOMAIN w.patients
    THEN Raise([called(w) EXCEPT !.appointments =
                    (slot_id :> Appointment(fresh_appointment_id(w), patient_id, slot_id,
                                            split_sep(slot_id, "_")[2], w.now)) @@ @],
               ValueError("Patient {} not found", patient_id))
    ELSE Return([called(w) EXCEPT !.appointments =
                     (slot_id :> Appointment(fresh_appointment_id(w), patient_id, slot_id,
                                             split_sep(slot_id, "_")[2], w.now)) @@ @],
                Dict(Appointment(fresh_appointment_id(w), patient_id, slot_id,
                                 split_sep(slot_id, "_")[2], w.now)))

api_book_appointment(w, patient_id, slot_id) ==
    IF patient_id \notin DOMAIN w.patients
    THEN Raise(called(w), ValueError("Patient {} not found", patient_id))
    ELSE IF slot_id \in DOMAIN w.appointments
    THEN Raise(called(w), ValueError("Slot {} is already booked", slot_id))
    ELSE IF Len(split_sep(slot_id, "_")) < 2
    THEN Raise(called(w), IndexError)
    ELSE LET specialty   == split_sep(slot_id, "_")[2]
             appointment == Appointment(fresh_appointment_id(w), patient_id, slot_id,
                                        specialty, w.now)
         IN  Return([called(w) EXCEPT !.appointments = (slot_id :> appointment) @@ @],
                    Dict(appointment))

(***************************************************************************)
(* logger.py: AuditLogger.  A line of the audit file is the JSON text of   *)
(* one entry; json_dumps gives the line and json_loads reads it back.      *)
(* In JSON, None is null; strings, booleans and objects keep their shape.  *)
(***************************************************************************)
JsonNull == [t |-> "null"]

\* a value that may be None, to JSON and back
to_json(x) == IF x.t = "NoneType" THEN JsonNull ELSE x

from_json(j) == IF j.t = "null" THEN None ELSE j

\* the parameters dict: date_range_end is the one value that may be None
params_to_json(parameters) ==
    IF "date_range_end" \in DOMAIN parameters
    THEN [parameters EXCEPT !.date_range_end = to_json(@)]
    ELSE parameters

params_from_json(parameters) ==
    IF "date_range_end" \in DOMAIN parameters
    THEN [parameters EXCEPT !.date_range_end = from_json(@)]
    ELSE parameters

\* json.dumps(log_entry) + "\n"
json_dumps(log_entry) ==
    IF "type" \in DOMAIN log_entry
    THEN [json |-> log_entry]
    ELSE [json |-> [log_entry EXCEPT !.parameters = params_to_json(@),
                                     !.result = to_json(@),
                                     !.error = to_json(@)]]

\* json.loads(line)
json_loads(line) ==
    IF "type" \in DOMAIN line.json
    THEN line.json
    ELSE [line.json EXCEPT !.parameters = params_from_json(@),
                           !.result = from_json(@),
                           !.error = from_json(@)]

\* with open(self.log_file, "a") as f: f.write(line)
append_line(w, line) ==
    [w EXCEPT !.log_exists = TRUE, !.log_lines = Append(@, line)]

\* the "result" field log_action writes: str(result) if result else None
logged_result(result) == IF truthy(result) THEN str(result) ELSE None

\* AuditLogger.log_action
log_action(w, action_type, function_name, parameters, result, success, error) ==
    LET log_entry == [timestamp |-> w.now,
                      action_type |-> action_type,
                      function_name |-> function_name,
                      parameters |-> parameters,
                      result |-> logged_result(result),
                      success |-> success,
                      error |-> error]
    IN  append_line(w, json_dumps(log_entry))

\* AuditLogger.log_user_request
log_user_request(w, request) ==
    append_line(w, json_dumps([timestamp |-> w.now,
                               type |-> "user_request",
                               request |-> request]))

\* AuditLogger.log_agent_response
log_agent_response(w, response) ==
    append_line(w, json_dumps([timestamp |-> w.now,
                               type |-> "agent_response",
                               response |-> response]))

\* lines[start:]: Python's slice from index start (negative counts from the end)
slice_from(lines, start) ==
    LET n    == Len(lines)
        from == IF start < 0
                THEN (IF n + start < 0 THEN 0 ELSE n + start)
                ELSE (IF start > n THEN n ELSE start)
    IN  SubSeq(lines, from + 1, n)

\* AuditLogger.get_logs
get_logs(w, limit) ==
    IF ~w.log_exists THEN << >>
    ELSE LET lines == slice_from(w.log_lines, -limit)
         IN  SubSeq([i \in 1..Len(lines) |-> json_loads(lines[i])], 1, Len(lines))

(***************************************************************************)
(* functions.py: ClinicalFunctions.  An f-string is the record of its      *)
(* template and the values put into it.                                    *)
(***************************************************************************)
\* the dry-run placeholder {"status": "DRY_RUN", "message": f"Would ..."}
DryRunResult(template, args) ==
    Dict([status |-> "DRY_RUN", message |-> [fmt |-> template, args |-> args]])

\* {"error": str(e)}
ErrorResult(exc) == Dict([error |-> str(exc)])

\* a faulty except clause: the failure is logged and raised again
logged_outcome_propagating(outcome, action_type, function_name, parameters) ==
    IF outcome.raised
    THEN Raise(log_action(outcome.w, action_type, function_name, parameters,
                          None, FALSE, str(outcome.exc)),
               outcome.exc)
    ELSE Return(log_action(outcome.w, action_type, function_name, parameters,
                           outcome.value, TRUE, None),
                outcome.value)

\* the end of each operation's try and its except clause: a result is logged
\* with success=True and returned; an exception is logged with result=None,
\* success=False, error=str(e), and {"error": str(e)} is returned
logged_outcome(outcome, action_type, function_name, parameters) ==
    IF outcome.raised
    THEN Return(log_action(outcome.w, action_type, function_name, parameters,
                           None, FALSE, str(outcome.exc)),
                ErrorResult(outcome.exc))
    ELSE Return(log_action(outcome.w, action_type, function_name, parameters,
                           outcome.value, TRUE, None),
                outcome.value)

\* result = patient.model_dump() if patient else {"error": ...}
patient_result(found, query) ==
    IF truthy(found.value)
    THEN found
    ELSE Return(found.w,
                Dict([error |-> [fmt |-> "Patient not found: {}", args |-> << query >>]]))

\* ClinicalFunctions.search_patient
search_patient(w, query) ==
    logged_outcome(IF w.dry_run
                   THEN Return(w, DryRunResult("Would search for patient: {}",
                                               << query >>))
                   ELSE patient_result(api_search_patient(w, query), query),
                   "SEARCH", "search_patient", [query |-> query])

\* ClinicalFunctions.check_insurance_eligibility
check_insurance_eligibility(w, patient_id, service_type) ==
    logged_outcome(IF w.dry_run
                   THEN Return(w, DryRunResult(
                                      "Would check eligibility for patient {} for {}",
                                      << patient_id, service_type >>))
                   ELSE api_check_insurance_eligibility(w, patient_id, service_type),
                   "CHECK_ELIGIBILITY", "check_insurance_eligibility",
                       [patient_id |-> patient_id, service_type |-> service_type])

\* result = {"slots": [slot.model_dump() for slot in slots], "count": len(slots)}
slots_result(slots) ==
    IF slots.raised THEN slots
    ELSE Return(slots.w, Dict([slots |-> slots.value, count |-> Len(slots.value)]))

\* ClinicalFunctions.find_available_slots
find_available_slots(w, specialty, date_range_start, date_range_end) ==
    logged_outcome(IF w.dry_run
                   THEN Return(w, DryRunResult("Would find slots for {} from {}",
                                               << specialty, date_range_start >>))
                   ELSE slots_result(api_find_available_slots(
                                         w, specialty, date_range_start, date_range_end)),
                   "FIND_SLOTS", "find_available_slots",
                       [specialty |-> specialty,
                        date_range_start |-> date_range_start,
                        date_range_end |-> date_range_end])

\* a faulty book_appointment: the dry-run switch is not consulted
book_appointment_ignoring_dry_run(w, patient_id, slot_id) ==
    logged_outcome(api_book_appointment(w, patient_id, slot_id),
                   "BOOK_APPOINTMENT", "book_appointment",
                   [patient_id |-> patient_id, slot_id |-> slot_id])

\* ClinicalFunctions.book_appointment
book_appointment(w, patient_id, slot_id) ==
    logged_outcome(IF w.dry_run
                   THEN Return(w, DryRunResult("Would book slot {} for patient {}",
                                               << slot_id, patient_id >>))
                   ELSE api_book_appointment(w, patient_id, slot_id),
                   "BOOK_APPOINTMENT", "book_appointment",
                       [patient_id |-> patient_id, slot_id |-> slot_id])

\* ClinicalFunctions.get_available_functions: the keys, in the dict's order
AvailableFunctions ==
    << "search_patient", "check_insurance_eligibility", "find_available_slots",
       "book_appointment" >>

\* the parameter names each function requires and accepts
RequiredParams(function_name) ==
    CASE function_name = "search_patient"              -> {"query"}
      [] function_name = "check_insurance_eligibility" -> {"patient_id", "service_type"}
      [] function_name = "find_available_slots"        -> {"specialty", "date_range_start"}
      [] function_name = "book_appointment"            -> {"patient_id", "slot_id"}

AcceptedParams(function_name) ==
    IF function_name = "find_available_slots"
    THEN RequiredParams(function_name) \cup {"date_range_end"}
    ELSE RequiredParams(function_name)

(***************************************************************************)
(* agent.py: ClinicalAgent                                                 *)
(***************************************************************************)
\* function(**arguments), the arguments bound by name
apply_function(w, function_name, arguments) ==
    CASE function_name = "search_patient" ->
           search_patient(w, arguments.query)
      [] function_name = "check_insurance_eligibility" ->
           check_insurance_eligibility(w, arguments.patient_id, arguments.service_type)
      [] function_name = "find_available_slots" ->
           find_available_slots(w, arguments.specialty, arguments.date_range_start,
                                IF "date_range_end" \in DOMAIN arguments
                                THEN arguments.date_range_end ELSE None)
      [] function_name = "book_appointment" ->
           book_appointment(w, arguments.patient_id, arguments.slot_id)

\* except Exception as e: return {"error": str(e)}
call_function_except(outcome) ==
    IF outcome.raised THEN Return(outcome.w, ErrorResult(outcome.exc)) ELSE outcome

\* ClinicalAgent._call_function
call_function(w, function_name, arguments) ==
    IF \A i \in 1..Len(AvailableFunctions) : AvailableFunctions[i] # function_name
    THEN Return(w, Dict([error |-> [fmt |-> "Unknown function: {}",
                                    name |-> function_name]]))
    ELSE IF ~ ( /\ RequiredParams(function_name) \subseteq DOMAIN arguments
                /\ DOMAIN arguments \subseteq AcceptedParams(function_name) )
    THEN Return(w, ErrorResult(TypeError(function_name)))
    ELSE call_function_except(apply_function(w, function_name, arguments))

\* json.dumps(result, indent=2)
json_text(result) == [text |-> "json.dumps", of |-> result]

\* the response of _handle_request's else branch
help_text(user_request, llm_response) ==
    [text |-> "Based on your request",
     request |-> user_request,
     llm_response |-> llm_response,
     actions |-> << "Search for patients", "Check insurance eligibility",
                    "Find available appointment slots", "Book appointments" >>]

\* " ".join([w for w in words if w[0].isupper()])
extract_query(user_request) ==
    join(s_space, SelectSeq(split(user_request), LAMBDA word : isupper(word[1])))

\* the result of a ClinicalFunctions call, rendered
rendered(outcome) ==
    IF outcome.raised THEN outcome ELSE Return(outcome.w, json_text(outcome.value))

\* ClinicalAgent._handle_request
handle_request(w, user_request, llm_response) ==
    LET request_lower == lower(user_request)
    IN  IF contains(kw_search, request_lower)
           \/ contains(kw_find_patient, request_lower)
        THEN rendered(search_patient(w, extract_query(user_request)))
        ELSE IF contains(kw_insurance, request_lower)
                \/ contains(kw_eligibility, request_lower)
        THEN rendered(check_insurance_eligibility(w, s_P001, s_cardiology))
        ELSE IF contains(kw_slots, request_lower)
                \/ contains(kw_available, request_lower)
        THEN rendered(find_available_slots(
                          w,
                          IF contains(kw_cardio, request_lower)
                          THEN s_cardiology ELSE s_general,
                          s_2025_12_23, None))
        ELSE IF contains(kw_book, request_lower)
                \/ contains(kw_schedule, request_lower)
        THEN rendered(book_appointment(w, s_P001, s_SLOT_CAR_2025122309))
        ELSE Return(w, help_text(user_request, llm_response))

\* f"Error processing request: {str(e)}"
error_msg(exc) == [text |-> "Error processing request: {}", e |-> str(exc)]

\* a faulty except clause: the error message is returned and not logged
process_request_except_unlogged(w, exc) == Return(w, error_msg(exc))

\* the except clause of process_request
process_request_except(w, exc) ==
    Return(log_agent_response(w, error_msg(exc)), error_msg(exc))

\* the try body of process_request after _handle_request, whose outcome is
\* handled: the result is logged and returned
process_request_try(handled) ==
    IF handled.raised
    THEN process_request_except(handled.w, handled.exc)
    ELSE Return(log_agent_response(handled.w, handled.value), handled.value)

\* ClinicalAgent.process_request; llm is what client.text_generation does
\* in this call: it returns a text or raises
process_request(w, user_request, llm) ==
    IF llm.raised
    THEN process_request_except(log_user_request(w, user_request), llm.exc)
    ELSE process_request_try(handle_request(log_user_request(w, user_request),
                                            user_request, llm.text))

(***************************************************************************)
(* Bounds and the inputs the operations are called with.                   *)
(***************************************************************************)
\* operations per behaviour of Spec and SpecAgent, and of SpecLogger
MaxOps == 2

MaxLogOps == 3

\* the largest limit get_logs is called with
MaxLimit == 4

\* threads that call log_user_request at the same time
MaxWriters == 2

Writers == 1..MaxWriters

Requests ==
    { ReqSearch, ReqInsurance, ReqSlots, ReqSchedule, ReqWeather, ReqSearchAndBook,
      s_empty }

\* what client.text_generation does in one call
LlmOutcomes ==
    { [raised |-> FALSE, text |-> "I would call a function."],
      [raised |-> TRUE,
       exc |-> [type |-> "HfHubHTTPError", msg |-> "401 Client Error: Unauthorized"]] }

Queries == { s_p002, s_kumar, s_Nobody }

EligibilityChecks ==
    { [patient_id |-> s_P001, service_type |-> s_cardiology],
      [patient_id |-> s_P003, service_type |-> s_general],
      [patient_id |-> s_P999, service_type |-> s_general] }

SlotSearches ==
    { [specialty |-> s_dental, date_range_start |-> s_2025_12_26,
       date_range_end |-> Str(s_2025_12_26)],
      [specialty |-> s_general, date_range_start |-> s_next_week,
       date_range_end |-> None],
      [specialty |-> s_general, date_range_start |-> s_2025_12_23,
       date_range_end |-> Str(s_next_week)] }

Bookings ==
    { [patient_id |-> s_P001, slot_id |-> s_SLOT_CAR_2025122309],
      [patient_id |-> s_P003, slot_id |-> s_SLOT_CAR_2025122309],
      [patient_id |-> s_P999, slot_id |-> s_SLOT_CAR_2025122309],
      [patient_id |-> s_P001, slot_id |-> s_SLOT] }

\* calls of _call_function: known and unknown names, matching and
\* mismatching argument names
FunctionCalls ==
    { [function_name |-> "search_patient", arguments |-> [query |-> s_kumar]],
      [function_name |-> "search_patient", arguments |-> [name |-> s_kumar]],
      [function_name |-> "book_appointment",
       arguments |-> [patient_id |-> s_P002, slot_id |-> s_SLOT_CAR_2025122309]],
      [function_name |-> "book_appointment", arguments |-> [patient_id |-> s_P002]],
      [function_name |-> "cancel_appointment",
       arguments |-> [slot_id |-> s_SLOT_CAR_2025122309]] }

\* result payloads log_action is called with directly
Payloads ==
    { None, EmptyDict, PyInt(0), List(<< >>), Dict([status |-> "ok"]) }

Limits == -1..MaxLimit

(***************************************************************************)
(* State.                                                                  *)
(***************************************************************************)
VARIABLES
    log_exists,     \* the audit file of the day exists
    log_lines,      \* its lines, in file order
    patients,       \* MockHealthcareAPI.patients
    appointments,   \* MockHealthcareAPI.appointments
    api_calls,      \* calls of MockHealthcareAPI methods so far
    now,            \* the clock datetime.now() reads
    dry_run,        \* ClinicalFunctions.dry_run
    last,           \* the last operation: its name, arguments, outcome, and
                    \* what the world was when it started
    ops,            \* operations performed
    writers         \* the threads inside log_user_request: where each is,
                    \* the line it writes, what its file object still buffers

vars == << log_exists, log_lines, patients, appointments, api_calls, now,
           dry_run, last, ops, writers >>

World ==
    [log_exists |-> log_exists, log_lines |-> log_lines, patients |-> patients,
     appointments |-> appointments, api_calls |-> api_calls, now |-> now,
     dry_run |-> dry_run]

\* ClinicalAgent(api_key, dry_run): the state after construction
Init ==
    /\ log_exists = FALSE
    /\ log_lines = << >>
    /\ patients = InitialPatients
    /\ appointments = InitialAppointments
    /\ api_calls = 0
    /\ now = 0
    /\ dry_run \in BOOLEAN
    /\ last = [op |-> "init"]
    /\ ops = 0
    /\ writers = [t \in Writers |-> [pc |-> "ready"]]

\* the operation op(args) ran from World and ended with outcome
Performed(op, args, outcome) ==
    /\ log_exists' = outcome.w.log_exists
    /\ log_lines' = outcome.w.log_lines
    /\ patients' = outcome.w.patients
    /\ appointments' = outcome.w.appointments
    /\ api_calls' = outcome.w.api_calls
    /\ now' = outcome.w.now
    /\ dry_run' = outcome.w.dry_run
    /\ last' = [op |-> op, args |-> args,
                before |-> [log_len |-> Len(log_lines), appointments |-> appointments,
                            api_calls |-> api_calls],
                raised |-> outcome.raised,
                ret |-> IF outcome.raised THEN str(outcome.exc) ELSE outcome.value]
    /\ ops' = ops + 1
    /\ UNCHANGED writers

\* Time passes between operations.  Timestamps are only compared, so one
\* step of the clock per operation gives every order of readings.
Tick ==
    /\ now < ops
    /\ now' = now + 1
    /\ UNCHANGED << log_exists, log_lines, patients, appointments, api_calls,
                    dry_run, last, ops, writers >>

ProcessRequest ==
    /\ ops < MaxOps
    /\ \E user_request \in Requests, llm \in LlmOutcomes :
          Performed("process_request", [user_request |-> user_request, llm |-> llm],
                    process_request(World, user_request, llm))

CallFunction ==
    /\ ops < MaxOps
    /\ \E call \in FunctionCalls :
          Performed("_call_function", call,
                    call_function(World, call.function_name, call.arguments))

SearchPatient ==
    /\ ops < MaxOps
    /\ \E query \in Queries :
          Performed("search_patient", [query |-> query],
                    search_patient(World, query))

CheckInsuranceEligibility ==
    /\ ops < MaxOps
    /\ \E args \in EligibilityChecks :
          Performed("check_insurance_eligibility", args,
                    check_insurance_eligibility(World, args.patient_id,
                                                args.service_type))

FindAvailableSlots ==
    /\ ops < MaxOps
    /\ \E args \in SlotSearches :
          Performed("find_available_slots", args,
                    find_available_slots(World, args.specialty, args.date_range_start,
                                         args.date_range_end))

BookAppointment ==
    /\ ops < MaxOps
    /\ \E args \in Bookings :
          Performed("book_appointment", args,
                    book_appointment(World, args.patient_id, args.slot_id))

LogAction ==
    /\ ops < MaxLogOps
    /\ \E result \in Payloads, success \in BOOLEAN :
          LET error == IF success THEN None
                       ELSE str(ValueError("Patient {} not found", s_P999))
              parameters == [patient_id |-> s_P999, service_type |-> s_general]
          IN  Performed("log_action",
                        [action_type |-> "CHECK_ELIGIBILITY",
                         function_name |-> "check_insurance_eligibility",
                         parameters |-> parameters, result |-> result,
                         success |-> success, error |-> error],
                        Return(log_action(World, "CHECK_ELIGIBILITY",
                                          "check_insurance_eligibility", parameters,
                                          result, success, error),
                               None))

LogUserRequest ==
    /\ ops < MaxLogOps
    /\ \E request \in { ReqWeather, s_empty } :
          Performed("log_user_request", [request |-> request],
                    Return(log_user_request(World, request), None))

LogAgentResponse ==
    /\ ops < MaxLogOps
    /\ \E response \in { help_text(ReqWeather, "I would call a function."),
                         json_text(EmptyDict) } :
          Performed("log_agent_response", [response |-> response],
                    Return(log_agent_response(World, response), None))

GetLogs ==
    /\ ops < MaxLogOps
    /\ \E limit \in Limits :
          Performed("get_logs", [limit |-> limit],
                    Return(World, List(get_logs(World, limit))))

Next ==
    \/ Tick
    \/ ProcessRequest
    \/ CallFunction
    \/ SearchPatient
    \/ CheckInsuranceEligibility
    \/ FindAvailableSlots
    \/ BookAppointment

\* process_request, _call_function and direct calls of the ClinicalFunctions
\* operations, in any order
Spec == Init /\ [][Next]_vars

NextAgent == Tick \/ ProcessRequest

\* sequences of process_request calls
SpecAgent == Init /\ [][NextAgent]_vars

NextLogger == Tick \/ LogAction \/ LogUserRequest \/ LogAgentResponse \/ GetLogs

\* direct use of the AuditLogger
SpecLogger == Init /\ [][NextLogger]_vars

(***************************************************************************)
(* Requests in flight at the same time: each thread runs                   *)
(* AuditLogger.log_user_request once.  The steps of one call are the       *)
(* open of the file, f.write(line), and the close at the end of the with   *)
(* block; the code takes no lock around them.  f.write puts the line into  *)
(* the buffer of the file object; the bytes reach the file in one raw      *)
(* write at the close, or in two raw writes when the first part is         *)
(* written before the close.  A raw write in append mode adds its bytes    *)
(* at the end of the file.                                                 *)
(***************************************************************************)
\* log_entry = {...}; with open(self.log_file, "a") as f:
OpenForAppend ==
    \E t \in Writers, request \in { ReqWeather, s_empty } :
        /\ writers[t].pc = "ready"
        /\ writers' = [writers EXCEPT ![t] =
               [pc |-> "opened",
                line |-> json_dumps([timestamp |-> now, type |-> "user_request",
                                     request |-> request])]]
        /\ log_exists' = TRUE
        /\ ops' = ops + 1
        /\ UNCHANGED << log_lines, patients, appointments, api_calls, now, dry_run,
                        last >>

\* f.write(json.dumps(log_entry) + "\n")
WriteLine ==
    \E t \in Writers :
        /\ writers[t].pc = "opened"
        /\ \/ /\ writers' = [writers EXCEPT ![t] =
                      [pc |-> "written", line |-> writers[t].line, buffered |-> "all"]]
              /\ UNCHANGED log_lines
           \/ /\ writers' = [writers EXCEPT ![t] =
                      [pc |-> "written", line |-> writers[t].line, buffered |-> "tail"]]
              /\ log_lines' = Append(log_lines, [head_of |-> writers[t].line])
        /\ UNCHANGED << log_exists, patients, appointments, api_calls, now, dry_run,
                        last, ops >>

\* the end of the with block: the buffer is flushed and the file closed
CloseFile ==
    \E t \in Writers :
        /\ writers[t].pc = "written"
        /\ log_lines' = Append(log_lines,
                               IF writers[t].buffered = "all"
                               THEN writers[t].line
                               ELSE [tail_of |-> writers[t].line])
        /\ writers' = [writers EXCEPT ![t] = [pc |-> "returned"]]
        /\ UNCHANGED << log_exists, patients, appointments, api_calls, now, dry_run,
                        last, ops >>

NextWriters == Tick \/ OpenForAppend \/ WriteLine \/ CloseFile

\* concurrent calls of log_user_request on one audit file
SpecWriters == Init /\ [][NextWriters]_vars

(***************************************************************************)
(* Reading the ledger and the last operation.                              *)
(***************************************************************************)
\* the entries of the audit file, in file order
Ledger ==
    SubSeq([i \in 1..Len(log_lines) |-> json_loads(log_lines[i])], 1, Len(log_lines))

IsUserRequest(e) == "type" \in DOMAIN e /\ e.type = "user_request"

IsAgentResponse(e) == "type" \in DOMAIN e /\ e.type = "agent_response"

IsAction(e) == "function_name" \in DOMAIN e

\* the entries the last operation appended
NewEntries == SubSeq(Ledger, last.before.log_len + 1, Len(Ledger))

\* the function names of the action entries among entries, in order
ActionNames(entries) ==
    LET actions == SelectSeq(entries, IsAction)
    IN  SubSeq([i \in 1..Len(actions) |-> actions[i].function_name], 1, Len(actions))

IsDryRunResult(r) ==
    r.t = "dict" /\ "d" \in DOMAIN r /\ "status" \in DOMAIN r.d /\ r.d.status = "DRY_RUN"

IsErrorResult(r) == r.t = "dict" /\ "d" \in DOMAIN r /\ "error" \in DOMAIN r.d

FunctionOps ==
    { "search_patient", "check_insurance_eligibility", "find_available_slots",
      "book_appointment" }

DispatchOps == FunctionOps \cup { "_call_function" }

\* the function a dispatch names and the arguments it passes
CalledName == IF last.op = "_call_function" THEN last.args.function_name ELSE last.op

CalledArgs == IF last.op = "_call_function" THEN last.args.arguments ELSE last.args

\* a slot id names a slot: SLOT_<specialty>_<time>
NamesSlot(slot_id) == contains(s_underscore, slot_id)

\* the request text mentions a keyword of the action
Mentions(user_request, function_name) ==
    LET text == lower(user_request)
    IN  CASE function_name = "search_patient" ->
               contains(kw_search, text) \/ contains(kw_find_patient, text)
          [] function_name = "check_insurance_eligibility" ->
               contains(kw_insurance, text) \/ contains(kw_eligibility, text)
          [] function_name = "find_available_slots" ->
               contains(kw_slots, text) \/ contains(kw_available, text)
          [] function_name = "book_appointment" ->
               contains(kw_book, text) \/ contains(kw_schedule, text)

\* the actions whose keywords the request mentions, in registry order
MatchingActions(user_request) ==
    SelectSeq(AvailableFunctions, LAMBDA f : Mentions(user_request, f))

(***************************************************************************)
(* C1.  In the ledger a sequence of process_request calls produces, every  *)
(* user_request entry is followed, before the next user_request entry, by  *)
(* exactly one agent_response entry, with only action entries between the  *)
(* two; the entries of one call are its request, the actions it            *)
(* dispatched, and the response it returned.  This holds when the          *)
(* language-model call raises too.                                         *)
(***************************************************************************)
\* entries i.. of the ledger are well bracketed; open: a request awaits its response
RECURSIVE Bracketed(_, _, _)
Bracketed(entries, i, open) ==
    IF i > Len(entries) THEN ~open
    ELSE IF IsUserRequest(entries[i]) THEN ~open /\ Bracketed(entries, i + 1, TRUE)
    ELSE IF IsAgentResponse(entries[i]) THEN open /\ Bracketed(entries, i + 1, FALSE)
    ELSE open /\ Bracketed(entries, i + 1, TRUE)

C1_RequestResponseBracketing ==
    /\ Bracketed(Ledger, 1, FALSE)
    /\ last.op = "process_request" =>
          /\ Len(NewEntries) >= 2
          /\ IsUserRequest(NewEntries[1])
          /\ NewEntries[1].request = last.args.user_request
          /\ IsAgentResponse(NewEntries[Len(NewEntries)])
          /\ NewEntries[Len(NewEntries)].response = last.ret

\* a second request whose language-model call raised, after a request that
\* dispatched an action
C1_Witness ==
    /\ last.op = "process_request"
    /\ last.args.llm.raised
    /\ last.before.log_len >= 3
    /\ Len(ActionNames(Ledger)) >= 1

(***************************************************************************)
(* C2.  Every dispatch (_call_function with any function name and          *)
(* arguments, and every direct call of the four operations) appends        *)
(* exactly one action entry before it returns; the entry's function name   *)
(* and parameters are those of the call and its timestamp is not earlier   *)
(* than the previous entry's.                                              *)
(***************************************************************************)
C2_OneEntryPerDispatch ==
    last.op \in DispatchOps =>
        LET n == Len(Ledger)
        IN  /\ n = last.before.log_len + 1
            /\ IsAction(Ledger[n])
            /\ Ledger[n].function_name = CalledName
            /\ Ledger[n].parameters = CalledArgs
            /\ n > 1 => Ledger[n - 1].timestamp <= Ledger[n].timestamp

(***************************************************************************)
(* C3.  In dry-run mode no operation ever calls a MockHealthcareAPI        *)
(* method: the count of backend calls stays 0 and the appointments store   *)
(* stays empty, and each of the four operations returns a DRY_RUN          *)
(* placeholder that is logged with success=true.                           *)
(***************************************************************************)
C3_DryRunLeavesBackendAlone ==
    dry_run =>
        /\ api_calls = 0
        /\ appointments = InitialAppointments
        /\ patients = InitialPatients
        /\ last.op \in FunctionOps =>
              LET n == Len(Ledger)
              IN  /\ ~last.raised
                  /\ IsDryRunResult(last.ret)
                  /\ n = last.before.log_len + 1
                  /\ Ledger[n].function_name = last.op
                  /\ Ledger[n].success = TRUE
                  /\ Ledger[n].result = str(last.ret)

\* a second dry-run execution, a booking
C3_Witness ==
    /\ dry_run
    /\ last.op = "book_appointment"
    /\ last.before.log_len >= 1
    /\ ops >= 2

BackendRaises ==
    CASE last.op = "check_insurance_eligibility" ->
           last.args.patient_id \notin DOMAIN patients
      [] last.op = "find_available_slots" ->
           \/ last.args.date_range_start = s_next_week
           \/ last.args.date_range_end = Str(s_next_week)
      [] last.op = "book_appointment" ->
           \/ last.args.patient_id \notin DOMAIN patients
           \/ last.args.slot_id \in DOMAIN last.before.appointments
           \/ ~NamesSlot(last.args.slot_id)
      [] OTHER -> FALSE

\* the last call reached book_appointment for a slot that was already booked
RebooksThroughAgent ==
    \/ /\ last.op = "process_request"
       /\ ~last.args.llm.raised
       /\ last.args.user_request = ReqSchedule
       /\ s_SLOT_CAR_2025122309 \in DOMAIN last.before.appointments
    \/ /\ last.op = "_call_function"
       /\ last.args.function_name = "book_appointment"
       /\ DOMAIN last.args.arguments = { "patient_id", "slot_id" }
       /\ last.args.arguments.slot_id \in DOMAIN last.before.appointments

IsFailureEntry(e) == IsAction(e) /\ e.success = FALSE /\ e.error # None /\ e.result = None

C5_BackendFailureContained ==
    ~dry_run =>
        /\ last.op \in DispatchOps \cup { "process_request" } => ~last.raised
        /\ (last.op \in FunctionOps /\ BackendRaises) =>
              /\ IsErrorResult(last.ret)
              /\ Len(NewEntries) = 1
              /\ IsFailureEntry(NewEntries[1])
              /\ NewEntries[1].function_name = last.op
        /\ RebooksThroughAgent =>
              /\ ActionNames(NewEntries) = << "book_appointment" >>
              /\ IsFailureEntry(SelectSeq(NewEntries, IsAction)[1])
              /\ appointments = last.before.appointments

\* a request to schedule the slot that is already booked
C5_Witness ==
    /\ ~dry_run
    /\ last.op = "process_request"
    /\ RebooksThroughAgent
    /\ ~last.raised

(***************************************************************************)
(* C6.  get_logs(limit) returns at most limit entries, and they are the    *)
(* last min(limit, n) entries of the n-entry ledger in ledger order; with  *)
(* limit 0 it returns nothing, with a limit above n it returns all n, and  *)
(* with no ledger it returns the empty list.                               *)
(***************************************************************************)
Min(a, b) == IF a < b THEN a ELSE b

C6_GetLogsReturnsTail ==
    (last.op = "get_logs" /\ last.args.limit >= 0) =>
        LET n    == Len(Ledger)
            k    == Min(last.args.limit, n)
            read == last.ret.items
        IN  /\ Len(read) <= last.args.limit
            /\ read = SubSeq(Ledger, n - k + 1, n)

(***************************************************************************)
(* C7.  An entry appended by log_action, log_user_request or               *)
(* log_agent_response is read back by get_logs with the fields it was      *)
(* given; for an action entry the result read back is the result payload   *)
(* that was logged (the payload itself or its text).                       *)
(***************************************************************************)
ReadsBack(payload, read) == read = payload \/ read = str(payload)

C7_EntryRoundTrip ==
    last.op \in { "log_action", "log_user_request", "log_agent_response" } =>
        LET read == get_logs(World, 1)
        IN  /\ Len(read) = 1
            /\ read[1].timestamp = now
            /\ CASE last.op = "log_action" ->
                      /\ read[1].action_type = last.args.action_type
                      /\ read[1].function_name = last.args.function_name
                      /\ read[1].parameters = last.args.parameters
                      /\ read[1].success = last.args.success
                      /\ read[1].error = last.args.error
                      /\ ReadsBack(last.args.result, read[1].result)
                 [] last.op = "log_user_request" ->
                      IsUserRequest(read[1]) /\ read[1].request = last.args.request
                 [] last.op = "log_agent_response" ->
                      IsAgentResponse(read[1]) /\ read[1].response = last.args.response

(***************************************************************************)
(* C8.  For each of the four operations the entry it logs has              *)
(* success=false exactly when the value it returns is an error object.     *)
(***************************************************************************)
C8_SuccessFlagMatchesOutcome ==
    last.op \in FunctionOps =>
        /\ Len(NewEntries) = 1
        /\ IsAction(NewEntries[1])
        /\ NewEntries[1].success = ~IsErrorResult(last.ret)

(***************************************************************************)
(* C9.  When the language-model call raises, process_request falls back    *)
(* to keyword matching: a request that mentions an action's keyword is     *)
(* dispatched to that action and the outcome is logged, and a request      *)
(* that mentions none gets the response that lists the available actions   *)
(* and nothing is dispatched.                                              *)
(***************************************************************************)
C9_KeywordFallback ==
    (last.op = "process_request" /\ last.args.llm.raised) =>
        IF MatchingActions(last.args.user_request) # << >>
        THEN /\ ActionNames(NewEntries) # << >>
             /\ Mentions(last.args.user_request, ActionNames(NewEntries)[1])
        ELSE /\ ActionNames(NewEntries) = << >>
             /\ last.ret.text = "Based on your request"

(***************************************************************************)
(* C10.  When a request mentions the keywords of several actions,          *)
(* process_request dispatches every matching action once, in registry      *)
(* order.                                                                  *)
(***************************************************************************)
C10_EveryMatchDispatched ==
    (last.op = "process_request" /\ ~last.args.llm.raised) =>
        ActionNames(NewEntries) = MatchingActions(last.args.user_request)

(***************************************************************************)
(* C11.  For a request text that mentions no action keyword (the empty     *)
(* text included), process_request does not raise, dispatches no           *)
(* operation and appends no action entry, and the response it returns      *)
(* lists the four available actions.                                       *)
(***************************************************************************)
ListsTheFourActions(response) ==
    /\ "actions" \in DOMAIN response
    /\ response.actions = << "Search for patients", "Check insurance eligibility",
                             "Find available appointment slots", "Book appointments" >>

C11_NoKeywordListsActions ==
    (last.op = "process_request" /\ MatchingActions(last.args.user_request) = << >>) =>
        /\ ~last.raised
        /\ ActionNames(NewEntries) = << >>
        /\ api_calls = last.before.api_calls
        /\ ListsTheFourActions(last.ret)

(***************************************************************************)
(* C12.  In dry-run mode, process_request("Search for patient Ravi Kumar") *)
(* with a working language-model call appends, between the request's       *)
(* user_request entry and its agent_response entry, exactly one action     *)
(* entry: for search_patient, with the patient name of the request as      *)
(* query, success=true and a dry-run placeholder as result.                *)
(***************************************************************************)
C12_DryRunSearchScenario ==
    ( /\ dry_run
      /\ last.op = "process_request"
      /\ last.args.user_request = ReqSearch
      /\ ~last.args.llm.raised ) =>
        /\ Len(NewEntries) = 3
        /\ IsUserRequest(NewEntries[1])
        /\ IsAction(NewEntries[2])
        /\ IsAgentResponse(NewEntries[3])
        /\ NewEntries[2].function_name = "search_patient"
        /\ NewEntries[2].success = TRUE
        /\ NewEntries[2].result =
               str(DryRunResult("Would search for patient: {}",
                                << NewEntries[2].parameters.query >>))
        /\ NewEntries[2].parameters.query = s_Ravi_Kumar

(***************************************************************************)
(* C14.  In LIVE mode the appointments store holds one appointment per     *)
(* slot id, each for a patient of the patient table; a stored appointment  *)
(* is never replaced or removed; the patient table never changes; and a    *)
(* book_appointment call that fails, like every search_patient,            *)
(* check_insurance_eligibility and find_available_slots call, leaves the   *)
(* appointments store as it was.                                           *)
(***************************************************************************)
C14_AppointmentStoreIntegrity ==
    ~dry_run =>
        /\ patients = InitialPatients
        /\ \A slot \in DOMAIN appointments :
              /\ appointments[slot].slot_id = slot
              /\ appointments[slot].patient_id \in DOMAIN patients
              /\ \A other \in DOMAIN appointments :
                    appointments[other].appointment_id = appointments[slot].appointment_id
                        => other = slot
        /\ last.op # "init" =>
              /\ \A slot \in DOMAIN last.before.appointments :
                    /\ slot \in DOMAIN appointments
                    /\ appointments[slot] = last.before.appointments[slot]
              /\ Cardinality(DOMAIN appointments)
                    <= Cardinality(DOMAIN last.before.appointments) + 1
              /\ last.op \in FunctionOps \ { "book_appointment" } =>
                    appointments = last.before.appointments
              /\ (last.op = "book_appointment" /\ IsErrorResult(last.ret)) =>
                    appointments = last.before.appointments
              /\ (last.op = "book_appointment" /\ ~IsErrorResult(last.ret)) =>
                    /\ last.args.slot_id \notin DOMAIN last.before.appointments
                    /\ Dict(appointments[last.args.slot_id]) = last.ret

\* a booking for an unknown patient, refused while another appointment is stored
C14_Witness ==
    /\ ~dry_run
    /\ last.op = "book_appointment"
    /\ last.args.patient_id \notin DOMAIN patients
    /\ IsErrorResult(last.ret)
    /\ Cardinality(DOMAIN appointments) >= 1

(***************************************************************************)
(* C13.  When several threads append to the audit file at the same time,   *)
(* at most one of them is inside an append (between the open of the file   *)
(* and its close), and every entry is in the file as one whole record:     *)
(* the first part of a line is followed at once by the rest of that line.  *)
(***************************************************************************)
InsideAppend(t) == writers[t].pc \in { "opened", "written" }

WholeRecords ==
    \A i \in 1..Len(log_lines) :
        /\ ("head_of" \in DOMAIN log_lines[i] /\ i < Len(log_lines)) =>
              log_lines[i + 1] = [tail_of |-> log_lines[i].head_of]
        /\ "tail_of" \in DOMAIN log_lines[i] =>
              /\ i > 1
              /\ log_lines[i - 1] = [head_of |-> log_lines[i].tail_of]

C13_AppendIsCriticalSection ==
    /\ Cardinality({ t \in Writers : InsideAppend(t) }) <= 1
    /\ WholeRecords
====
